---- MODULE Spec2Model ----
(***************************************************************************)
(* tlx.apigateway: the `handler` decorator that turns a lambda handler's   *)
(* return value or exception into an API Gateway proxy response, and the   *)
(* input-validation helpers required_fields_found, require_valid_inputs    *)
(* and optional_fields_found.                                              *)
(*                                                                         *)
(* Python values are tagged records; a dict is an insertion-ordered        *)
(* sequence of <<key, value>> pairs; a str is a TLA+ string.               *)
(***************************************************************************)
EXTENDS Integers, Sequences, FiniteSets, TLC

VARIABLES pc, event, context, response, exc, outcome, calls, log, result,
          invocations, seen, supplied, required, vop, vres

vars == <<pc, event, context, response, exc, outcome, calls, log, result,
          invocations, seen, supplied, required, vop, vres>>

wrapperVars == <<pc, event, context, response, exc, outcome, calls, log,
                 result, invocations, seen>>

validatorVars == <<supplied, required, vop, vres>>

(***************************************************************************)
(* Bounds                                                                  *)
(***************************************************************************)
MaxInvocations == 3

MaxInt == 1

(***************************************************************************)
(* Python values                                                           *)
(***************************************************************************)
None == [t |-> "null"]

PyInt(n) == [t |-> "int", i |-> n]

PyStr(s) == [t |-> "str", s |-> s]

PyBool(b) == [t |-> "bool", b |-> b]

PyDict(pairs) == [t |-> "dict", d |-> pairs]

PySet(elems) == [t |-> "set", e |-> elems]

\* bool(v): Python truthiness, as used by `if code:` and `if supplied:`
Truthy(v) ==
    CASE v.t = "null" -> FALSE
      [] v.t = "int"  -> v.i # 0
      [] v.t = "str"  -> v.s # ""
      [] v.t = "bool" -> v.b
      [] v.t = "dict" -> Len(v.d) > 0
      [] v.t = "set"  -> v.e # {}

\* d.keys(), in insertion order
Keys(d) == [n \in 1..Len(d.d) |-> d.d[n][1]]

KeySet(d) == {d.d[n][1] : n \in 1..Len(d.d)}

\* k in d
Has(d, k) == k \in KeySet(d)

\* d[k]
Get(d, k) == d.d[CHOOSE n \in 1..Len(d.d) : d.d[n][1] = k][2]

\* d[k] = v
Put(d, k, v) ==
    IF Has(d, k)
    THEN PyDict([n \in 1..Len(d.d) |->
                   IF d.d[n][1] = k THEN <<k, v>> ELSE d.d[n]])
    ELSE PyDict(Append(d.d, <<k, v>>))

\* del d[k]
Del(d, k) == PyDict(SelectSeq(d.d, LAMBDA p : p[1] # k))

(***************************************************************************)
(* tlx.dynamodb.json_dumps: serialisation of a value to JSON text          *)
(***************************************************************************)
Quote(s) == "\"" \o s \o "\""

RECURSIVE json_dumps(_)
RECURSIVE DumpsPairs(_, _)

DumpsPairs(pairs, n) ==
    IF n > Len(pairs) THEN ""
    ELSE (IF n > 1 THEN ", " ELSE "")
         \o Quote(pairs[n][1]) \o ": " \o json_dumps(pairs[n][2])
         \o DumpsPairs(pairs, n + 1)

json_dumps(v) ==
    CASE v.t = "null" -> "null"
      [] v.t = "int"  -> ToString(v.i)
      [] v.t = "bool" -> IF v.b THEN "true" ELSE "false"
      [] v.t = "str"  -> Quote(v.s)
      [] v.t = "dict" -> "{" \o DumpsPairs(v.d, 1) \o "}"

\* repr(v) and str(v), as str.format and f-strings render a value
RECURSIVE py_repr(_)
RECURSIVE ReprPairs(_, _)

ReprPairs(pairs, n) ==
    IF n > Len(pairs) THEN ""
    ELSE (IF n > 1 THEN ", " ELSE "")
         \o "'" \o pairs[n][1] \o "': " \o py_repr(pairs[n][2])
         \o ReprPairs(pairs, n + 1)

py_repr(v) ==
    CASE v.t = "null" -> "None"
      [] v.t = "int"  -> ToString(v.i)
      [] v.t = "bool" -> IF v.b THEN "True" ELSE "False"
      [] v.t = "str"  -> "'" \o v.s \o "'"
      [] v.t = "dict" -> "{" \o ReprPairs(v.d, 1) \o "}"

py_str(v) == IF v.t = "str" THEN v.s ELSE py_repr(v)

\* repr(list(keys)) of a sequence of key names
RECURSIVE ListRepr(_, _)

ListRepr(keys, n) ==
    IF n > Len(keys) THEN (IF n = 1 THEN "[]" ELSE "]")
    ELSE (IF n = 1 THEN "[" ELSE ", ") \o "'" \o keys[n] \o "'"
         \o ListRepr(keys, n + 1)

(***************************************************************************)
(* Inputs                                                                  *)
(***************************************************************************)
\* values the decorated function returns: None, falsy and truthy scalars,
\* the empty dict and a nested structure
ReturnValues ==
    {None, PyStr("ok"), PyDict(<<>>), PyDict(<< <<"id", PyInt(MaxInt)>> >>)}
    \cup {PyInt(n) : n \in 0..MaxInt}

ErrorTexts == {"Payment required", "boom"}

\* the code argument of APIGException(message, code=...)
ErrorCodes == {None, PyInt(0), PyInt(400), PyInt(402)}

EventFields == <<"resource", "queryStringParameters", "body">>

FullEvent ==
    PyDict(<< <<"resource", PyStr("/items")>>,
              <<"queryStringParameters", None>>,
              <<"body", PyStr("{}")>> >>)

Events == {FullEvent, Del(FullEvent, "body"), PyDict(<<>>),
           Put(FullEvent, "httpMethod", PyStr("GET"))}

Contexts == {"ctx1", "ctx2"}

(***************************************************************************)
(* Exceptions                                                              *)
(***************************************************************************)
NoExc == [type |-> "none", msg |-> "", code |-> None]

\* APIGException.__init__(self, message, code=500)
APIGException(message, code) ==
    [type |-> "APIGException", msg |-> message, code |-> code]

APIGExceptionDefaultCode(message) == APIGException(message, PyInt(500))

JSONDecodeError == [type |-> "JSONDecodeError", msg |-> "Expecting value",
                    code |-> None]

OtherError(kind, message) == [type |-> kind, msg |-> message, code |-> None]

\* what func(event, context) can do: return a value or raise
Outcomes ==
    {[kind |-> "return", value |-> v, exc |-> NoExc] : v \in ReturnValues}
    \cup {[kind |-> "raise", value |-> None, exc |-> APIGException(m, c)] :
            m \in ErrorTexts, c \in ErrorCodes}
    \cup {[kind |-> "raise", value |-> None,
           exc |-> APIGExceptionDefaultCode(m)] : m \in ErrorTexts}
    \cup {[kind |-> "raise", value |-> None, exc |-> JSONDecodeError]}
    \cup {[kind |-> "raise", value |-> None,
           exc |-> OtherError("ValueError", m)] : m \in ErrorTexts}

NoOutcome == [kind |-> "none", value |-> None, exc |-> NoExc]

NoResult == [kind |-> "none", value |-> None, exc |-> NoExc]

(***************************************************************************)
(* handler.wrapper                                                         *)
(***************************************************************************)
DefaultMessage == "Error saving data.  Check logs for more info."

\* the default response of wrapper
DefaultResponse ==
    PyDict(<< <<"statusCode", PyInt(500)>>,
              <<"body", PyDict(<< <<"message", PyStr(DefaultMessage)>>,
                                  <<"response", PyDict(<<>>)>> >>)>> >>)

LogEntry(level, text) == [level |-> level, text |-> text]

\* setup_error_response(msg, code=None) applied to the response r
setup_error_response(r, msg, code) ==
    LET r1 == Put(r, "body", Put(Get(r, "body"), "message", PyStr(msg)))
    IN  IF Truthy(code) THEN Put(r1, "statusCode", code) ELSE r1

\* variant: the default response is shared between calls, so the response
\* value of the previous call is still in it
InvokeShared ==
    /\ pc \in {"idle", "returned", "raised"}
    /\ invocations < MaxInvocations
    /\ \E ev \in Events, ctx \in Contexts :
         /\ event' = ev
         /\ context' = ctx
    /\ response' = IF outcome.kind = "return"
                   THEN Put(DefaultResponse, "body",
                            Put(Get(DefaultResponse, "body"), "response",
                                outcome.value))
                   ELSE DefaultResponse
    /\ exc' = NoExc
    /\ outcome' = NoOutcome
    /\ calls' = <<>>
    /\ log' = <<>>
    /\ result' = NoResult
    /\ invocations' = invocations + 1
    /\ pc' = "try"
    /\ UNCHANGED <<seen, validatorVars>>

\* wrapper(event, context) is entered and builds its local response
Invoke ==
    /\ pc \in {"idle", "returned", "raised"}
    /\ invocations < MaxInvocations
    /\ \E ev \in Events, ctx \in Contexts :
         /\ event' = ev
         /\ context' = ctx
    /\ response' = DefaultResponse
    /\ exc' = NoExc
    /\ outcome' = NoOutcome
    /\ calls' = <<>>
    /\ log' = <<>>
    /\ result' = NoResult
    /\ invocations' = invocations + 1
    /\ pc' = "try"
    /\ UNCHANGED <<seen, validatorVars>>

\* logger.info('event: {}'.format(json_dumps(event)))
LogEvent ==
    /\ pc = "try"
    /\ log' = Append(log, LogEntry("info", "event: " \o json_dumps(event)))
    /\ pc' = "logged"
    /\ UNCHANGED <<event, context, response, exc, outcome, calls, result,
                   invocations, seen, validatorVars>>

\* the first field "...".format(**event) does not find in event, 0 if none
MissingField ==
    LET missing == {n \in 1..Len(EventFields) : ~Has(event, EventFields[n])}
    IN  IF missing = {} THEN 0
        ELSE CHOOSE n \in missing : \A m \in missing : n <= m

\* logger.debug("Received '{resource}' ...".format(**event))
LogDebug ==
    /\ pc = "logged"
    /\ IF MissingField = 0
       THEN /\ log' = Append(log, LogEntry("debug",
                        "Received '" \o py_str(Get(event, "resource"))
                        \o "' request with params: "
                        \o py_str(Get(event, "queryStringParameters"))
                        \o " and body: " \o py_str(Get(event, "body"))))
            /\ pc' = "call"
            /\ exc' = exc
       ELSE /\ exc' = OtherError("KeyError",
                                 "'" \o EventFields[MissingField] \o "'")
            /\ pc' = "except"
            /\ log' = log
    /\ UNCHANGED <<event, context, response, outcome, calls, result,
                   invocations, seen, validatorVars>>

\* statusCode and message are set, then func(event, context) is called
CallInner ==
    /\ pc = "call"
    /\ \E o \in Outcomes :
         LET r1 == Put(response, "statusCode", PyStr("200"))
             r2 == Put(r1, "body",
                       Put(Get(r1, "body"), "message", PyStr("Success")))
         IN  /\ outcome' = o
             /\ calls' = Append(calls, <<event, context, log>>)
             /\ IF o.kind = "return"
                THEN /\ response' = Put(r2, "body",
                                     Put(Get(r2, "body"), "response", o.value))
                     /\ exc' = exc
                     /\ pc' = "final"
                ELSE /\ response' = r2
                     /\ exc' = o.exc
                     /\ pc' = "except"
    /\ UNCHANGED <<event, context, log, result, invocations, seen,
                   validatorVars>>

\* except APIGException as e
HandleAPIG ==
    /\ pc = "except"
    /\ exc.type = "APIGException"
    /\ log' = Append(log, LogEntry("error", "Error: " \o exc.msg))
    /\ response' = setup_error_response(response, "Error: " \o exc.msg,
                                        exc.code)
    /\ pc' = "final"
    /\ UNCHANGED <<event, context, exc, outcome, calls, result, invocations,
                   seen, validatorVars>>

\* except json.decoder.JSONDecodeError as e
HandleJSON ==
    /\ pc = "except"
    /\ exc.type = "JSONDecodeError"
    /\ log' = Append(log, LogEntry("error", "Input data is not JSON"))
    /\ response' = setup_error_response(response, "Input data is not JSON",
                                        None)
    /\ pc' = "final"
    /\ UNCHANGED <<event, context, exc, outcome, calls, result, invocations,
                   seen, validatorVars>>

\* except Exception as e: raise Exception(e)
HandleOther ==
    /\ pc = "except"
    /\ exc.type \notin {"APIGException", "JSONDecodeError"}
    /\ result' = [kind |-> "raise", value |-> None,
                  exc |-> OtherError("Exception", exc.msg)]
    /\ pc' = "raised"
    /\ UNCHANGED <<event, context, response, exc, outcome, calls, log,
                   invocations, seen, validatorVars>>

\* variant: the response is dropped whenever it is falsy
StripFalsy(body) ==
    IF ~Truthy(Get(body, "response")) THEN Del(body, "response") ELSE body

\* the body's response is dropped when it is None
StripNone(body) ==
    IF Get(body, "response") = None THEN Del(body, "response") ELSE body

\* final preparation: strip, serialise the body, log and return
Finalize ==
    /\ pc = "final"
    /\ LET r == Put(response, "body",
                    PyStr(json_dumps(StripNone(Get(response, "body")))))
       IN  /\ response' = r
           /\ log' = Append(log, LogEntry("info",
                       "Returning repsonse: " \o py_repr(r)))
           /\ result' = [kind |-> "return", value |-> r, exc |-> NoExc]
           /\ seen' = seen \cup {<<outcome, r>>}
    /\ pc' = "returned"
    /\ UNCHANGED <<event, context, exc, outcome, calls, invocations,
                   validatorVars>>

(***************************************************************************)
(* Input validation helpers                                                *)
(***************************************************************************)
MaxKeys == 3

KeyName(n) == "k" \o ToString(n)

FieldNames == {KeyName(n) : n \in 1..MaxKeys}

\* the mapping whose keys are ks, inserted in ascending order
DictOf(ks) ==
    PyDict(SelectSeq([n \in 1..MaxKeys |-> <<KeyName(n), PyInt(1)>>],
                     LAMBDA p : p[1] \in ks))

SuppliedValues == {None} \cup {DictOf(ks) : ks \in SUBSET FieldNames}

\* variant: no truthiness guard on supplied
required_fields_found_unguarded(sup, req) ==
    PyBool(req \subseteq (IF sup.t = "dict" THEN KeySet(sup) ELSE {}))

\* required_fields_found(supplied, required)
required_fields_found(sup, req) ==
    IF Truthy(sup)
    THEN PyBool((req \cap KeySet(sup)) = req)
    ELSE PyBool(FALSE)

\* require_valid_inputs(supplied, required): the value returned or the
\* exception raised
require_valid_inputs(sup, req) ==
    IF ~required_fields_found(sup, req).b
    THEN IF sup.t = "dict"
         THEN [kind |-> "raise", value |-> None,
               exc |-> APIGException("Invalid input parameters: "
                                     \o ListRepr(Keys(sup), 1), PyInt(400))]
         ELSE [kind |-> "raise", value |-> None,
               exc |-> OtherError("AttributeError",
                         "'NoneType' object has no attribute 'keys'")]
    ELSE [kind |-> "return", value |-> None, exc |-> NoExc]

\* variant: an empty intersection is reported as False
optional_fields_found_or_false(params, fields) ==
    IF Truthy(params) /\ (fields \cap KeySet(params)) # {}
    THEN PySet(fields \cap KeySet(params))
    ELSE PyBool(FALSE)

\* optional_fields_found(params, fields)
optional_fields_found(params, fields) ==
    IF Truthy(params)
    THEN PySet(fields \cap KeySet(params))
    ELSE PyBool(FALSE)

CallRequiredFieldsFound ==
    /\ vop' = "required_fields_found"
    /\ vres' = [kind |-> "return",
                value |-> required_fields_found(supplied, required),
                exc |-> NoExc]
    /\ UNCHANGED <<supplied, required, wrapperVars>>

CallRequireValidInputs ==
    /\ vop' = "require_valid_inputs"
    /\ vres' = require_valid_inputs(supplied, required)
    /\ UNCHANGED <<supplied, required, wrapperVars>>

CallOptionalFieldsFound ==
    /\ vop' = "optional_fields_found"
    /\ vres' = [kind |-> "return",
                value |-> optional_fields_found(supplied, required),
                exc |-> NoExc]
    /\ UNCHANGED <<supplied, required, wrapperVars>>

Init ==
    /\ pc = "idle"
    /\ event = PyDict(<<>>)
    /\ context = "ctx1"
    /\ response = DefaultResponse
    /\ exc = NoExc
    /\ outcome = NoOutcome
    /\ calls = <<>>
    /\ log = <<>>
    /\ result = NoResult
    /\ invocations = 0
    /\ seen = {}
    /\ supplied = None
    /\ required = {}
    /\ vop = "none"
    /\ vres = NoResult

Next ==
    \/ Invoke
    \/ LogEvent
    \/ LogDebug
    \/ CallInner
    \/ HandleAPIG
    \/ HandleJSON
    \/ HandleOther
    \/ Finalize

Spec == Init /\ [][Next]_vars

\* the helpers applied to every supplied mapping and field set
InitValidator ==
    /\ pc = "idle"
    /\ event = PyDict(<<>>)
    /\ context = "ctx1"
    /\ response = DefaultResponse
    /\ exc = NoExc
    /\ outcome = NoOutcome
    /\ calls = <<>>
    /\ log = <<>>
    /\ result = NoResult
    /\ invocations = 0
    /\ seen = {}
    /\ supplied \in SuppliedValues
    /\ required \in SUBSET FieldNames
    /\ vop = "none"
    /\ vres = NoResult

NextValidator ==
    \/ CallRequiredFieldsFound
    \/ CallRequireValidInputs
    \/ CallOptionalFieldsFound

SpecValidator == InitValidator /\ [][NextValidator]_vars

(***************************************************************************)
(* Properties                                                              *)
(***************************************************************************)
EnvelopeMessages ==
    {"Success", DefaultMessage, "Input data is not JSON"}
    \cup {"Error: " \o m : m \in ErrorTexts}

BodyValues ==
    {PyDict(<< <<"message", PyStr(m)>> >>) : m \in EnvelopeMessages}
    \cup {PyDict(<< <<"message", PyStr(m)>>, <<"response", v>> >>) :
            m \in EnvelopeMessages, v \in ReturnValues}

\* the mapping a JSON text decodes to
json_loads(s) ==
    IF \E b \in BodyValues : json_dumps(b) = s
    THEN CHOOSE b \in BodyValues : json_dumps(b) = s
    ELSE [t |-> "undecodable"]

Finished == pc \in {"returned", "raised"}

Returned == pc = "returned"

StatusCode == Get(result.value, "statusCode")

Body == Get(result.value, "body")

DecodedBody == json_loads(Body.s)

BodyIsJsonText == Body.t = "str" /\ DecodedBody.t = "dict"

BodyMessage == Get(DecodedBody, "message")

\* C1: for every value v the inner handler returns (None included) the
\* envelope has the integer statusCode 200 and a body with message
\* "Success", with response equal to v when v is not None and without a
\* response field when v is None.
C1_SuccessEnvelope ==
    (Finished /\ outcome.kind = "return") =>
        /\ Returned
        /\ StatusCode = PyInt(200)
        /\ BodyIsJsonText
        /\ BodyMessage = PyStr("Success")
        /\ IF outcome.value = None
           THEN ~Has(DecodedBody, "response")
           ELSE /\ Has(DecodedBody, "response")
                /\ Get(DecodedBody, "response") = outcome.value

\* C2: an APIGException with message m and code c (falsy codes included)
\* raised by the inner handler is returned, not propagated, as an envelope
\* whose statusCode is c (500 when no code was given) and whose message is
\* "Error: " followed by m.
C2_DomainErrorEnvelope ==
    (Finished /\ outcome.exc.type = "APIGException") =>
        /\ Returned
        /\ StatusCode = (IF outcome.exc.code = None THEN PyInt(500)
                         ELSE outcome.exc.code)
        /\ BodyIsJsonText
        /\ BodyMessage = PyStr("Error: " \o outcome.exc.msg)

\* C3: a JSON decode error raised by the inner handler is returned, not
\* propagated, as an envelope with message "Input data is not JSON" and the
\* default statusCode 500.
C3_JsonErrorEnvelope ==
    (Finished /\ outcome.exc.type = "JSONDecodeError") =>
        /\ Returned
        /\ StatusCode = PyInt(500)
        /\ BodyIsJsonText
        /\ BodyMessage = PyStr("Input data is not JSON")

\* C4: any other exception raised by the inner handler is not propagated:
\* the wrapper returns an envelope with statusCode 500 whose message does
\* not carry the exception's message.
C4_UnforeseenNotPropagated ==
    (Finished /\ outcome.exc.type = "ValueError") =>
        /\ Returned
        /\ StatusCode = PyInt(500)
        /\ BodyIsJsonText
        /\ BodyMessage \notin {PyStr(outcome.exc.msg),
                               PyStr("Error: " \o outcome.exc.msg)}

\* C5 as stated: every returned envelope has a body that is JSON text, that
\* always holds message, and that holds response only when the inner
\* handler returned a value other than None.
C5_ResponseOnlyOnValue ==
    Returned =>
        /\ BodyIsJsonText
        /\ Has(DecodedBody, "message")
        /\ Has(DecodedBody, "response") =>
               (outcome.kind = "return" /\ outcome.value # None)

\* C5 as amended: every returned envelope has a body that is JSON text and
\* always holds message; response is missing exactly when the inner
\* handler returned None, it is the returned value when that is not None,
\* and on the error paths that return it is the empty object of the
\* default envelope.
C5_BodyShape ==
    Returned =>
        /\ BodyIsJsonText
        /\ Has(DecodedBody, "message")
        /\ Has(DecodedBody, "response") <=>
               ~(outcome.kind = "return" /\ outcome.value = None)
        /\ (outcome.kind = "return" /\ outcome.value # None) =>
               Get(DecodedBody, "response") = outcome.value
        /\ outcome.kind = "raise" =>
               Get(DecodedBody, "response") = PyDict(<<>>)

C5_Witness ==
    /\ Returned
    /\ outcome.kind = "raise"
    /\ BodyIsJsonText
    /\ Has(DecodedBody, "response")

NeedsRejection(sup, req) ==
    \/ sup = None
    \/ Len(sup.d) = 0
    \/ ~(req \subseteq KeySet(sup))

\* C6: require_valid_inputs raises APIGException with code 400 and message
\* "Invalid input parameters: " plus the supplied keys whenever supplied is
\* None, empty or lacks a required key, and returns otherwise.
C6_FailsClosed ==
    vop = "require_valid_inputs" =>
        IF NeedsRejection(supplied, required)
        THEN /\ vres.kind = "raise"
             /\ vres.exc.type = "APIGException"
             /\ vres.exc.code = PyInt(400)
             /\ supplied # None =>
                    vres.exc.msg = "Invalid input parameters: "
                                   \o ListRepr(Keys(supplied), 1)
        ELSE vres.kind = "return"

\* C7: required_fields_found is true exactly when supplied is present and
\* non-empty and holds every required key; extra keys do not matter, and
\* None or empty supplied gives false whatever required is.
C7_RequiredFieldsFound ==
    vop = "required_fields_found" =>
        vres.value = PyBool(/\ supplied # None
                            /\ Len(supplied.d) > 0
                            /\ required \subseteq KeySet(supplied))

C7_Witness ==
    /\ vop = "required_fields_found"
    /\ supplied = PyDict(<<>>)
    /\ required = {}
    /\ vres.value = PyBool(FALSE)

\* C8: optional_fields_found is false for None or empty params, and
\* otherwise the set of fields that are keys of params (the empty set, not
\* false, when none is).
C8_OptionalFieldsFound ==
    vop = "optional_fields_found" =>
        IF supplied = None \/ Len(supplied.d) = 0
        THEN vres.value = PyBool(FALSE)
        ELSE vres.value = PySet({f \in required : Has(supplied, f)})

C8_Witness ==
    /\ vop = "optional_fields_found"
    /\ supplied # None
    /\ Len(supplied.d) > 0
    /\ required # {}
    /\ vres.value = PySet({})

\* C9: invocations are independent: whatever was invoked before, the
\* envelope returned depends only on the outcome of the inner handler in
\* that invocation, so two invocations with the same outcome return the
\* same envelope.
C9_Independent ==
    \A p \in seen : \A q \in seen : p[1] = q[1] => p[2] = q[2]

C9_Witness ==
    /\ invocations >= 2
    /\ Returned
    /\ outcome.kind = "raise"
    /\ \E p \in seen : p[1].kind = "return" /\ p[1].value # None

\* C10: whatever keys the event has, the inner handler is invoked exactly
\* once, after the event was logged, with the event and context the wrapper
\* received, and the envelope is logged before it is returned.
C10_InnerCalledOnce ==
    Finished =>
        /\ Len(calls) = 1
        /\ calls[1][1] = event
        /\ calls[1][2] = context
        /\ \E n \in 1..Len(calls[1][3]) :
               calls[1][3][n] = LogEntry("info",
                                         "event: " \o json_dumps(event))
        /\ Returned =>
               log[Len(log)] = LogEntry("info", "Returning repsonse: "
                                                \o py_repr(result.value))

====
